---- MODULE Spec2Model ----
(***************************************************************************)
(* Model of tw_stockbot_push.py: one cron-triggered run of main() over the *)
(* watchlist, the pure helpers it uses (to_float, fetch_ma's rolling       *)
(* means, the event chain), the LINE transport line_send and the Upstash   *)
(* Redis dedup dedup_check_and_set.                                        *)
(*                                                                         *)
(* Number representation.  Python floats are held as integers in units of  *)
(* 1/Unit (Unit = 20), so that the 10- and 20-row means of integer closes  *)
(* are exact.  Closes and quotes are positive, as exchange prices are.     *)
(* An absent value (Python None) is the empty tuple, a present value v is  *)
(* the one-element tuple <<v>>.                                            *)
(***************************************************************************)
EXTENDS Integers, Sequences, FiniteSets, TLC

VARIABLES
    \* ---- one run of main() ----
    pc,          \* position of the run inside main()
    quotes,      \* dict returned by fetch_twse_quotes(CODES)
    idx,         \* index into CODES of the ticker being processed
    lines,       \* the list `lines` (header first)
    alerts,      \* the list `alerts`
    loc,         \* locals of the current loop iteration
    redis,       \* keys held by the Upstash store
    redisOn,     \* REDIS_URL and REDIS_TOKEN are both set
    out,         \* what reached the transport / the console, in order
    recorded,    \* keys this run wrote to the store with a True return
    feed,        \* per ticker: what the secondary feed answered (history)
    \* ---- fetch_ma applied to one daily series ----
    maSeries, maOut, maPc,
    \* ---- overlapping runs calling dedup_check_and_set ----
    dpc, dkey, dcalls, dret, dstore, dclean

vars == << pc, quotes, idx, lines, alerts, loc, redis, redisOn, out,
           recorded, feed, maSeries, maOut, maPc,
           dpc, dkey, dcalls, dret, dstore, dclean >>

mainVars  == << pc, quotes, idx, lines, alerts, loc, redis, redisOn,
                out, recorded, feed >>
maVars    == << maSeries, maOut, maPc >>
dedupVars == << dpc, dkey, dcalls, dret, dstore, dclean >>

(***************************************************************************)
(* Bounds and program constants                                            *)
(***************************************************************************)
NumCodes == 2            \* length of the watchlist CODES that is modelled
MaxRows  == 23           \* longest daily series handed to fetch_ma
NumRuns  == 2            \* overlapping runs sharing the Redis store
MaxCalls == 2            \* dedup_check_and_set calls per overlapping run

P10 == 10                \* close.rolling(10)
P20 == 20                \* close.rolling(20)
TolNum == 5              \* TOUCH_TOL = 0.005 = TolNum / TolDen
TolDen == 1000

Unit == P20              \* floats are integers in units of 1/Unit
Fix(v) == v * Unit

CODES == 1 .. NumCodes

None == << >>
Some(v) == << v >>
Val(x) == x[1]

(***************************************************************************)
(* Raw values as they arrive from the feeds                                *)
(***************************************************************************)
Absent == [t |-> "none"]                 \* dict.get() found no such field
Str(s) == [t |-> "str", s |-> s]         \* a non-numeric string
Num(v) == [t |-> "num", v |-> v]         \* a number / numeric string
NaN    == [t |-> "nan"]                  \* float('nan') in a pandas column

\* to_float: None, "", "-", "NaN", non-numeric and non-finite give None
to_float(x) ==
    CASE x.t = "none" -> None
      [] x.t = "str"  -> None
      [] x.t = "nan"  -> None
      [] x.t = "num"  -> Some(Fix(x.v))

(***************************************************************************)
(* fetch_ma                                                                *)
(***************************************************************************)
RECURSIVE SumRows(_, _, _)
SumRows(s, lo, hi) == IF lo > hi THEN 0 ELSE s[hi].v + SumRows(s, lo, hi - 1)

\* Series.rolling(N).mean() at row i (1-based): NaN unless the window of the
\* last N rows is complete and holds no NaN (min_periods defaults to N)
Rolling(s, N, i) ==
    IF i < N \/ (\E j \in (i - N + 1) .. i : s[j].t # "num")
    THEN NaN
    ELSE [t |-> "fix", f |-> SumRows(s, i - N + 1, i) * (Unit \div N)]

\* to_float applied to a rolling mean (already in 1/Unit)
to_float_mean(m) == IF m.t = "fix" THEN Some(m.f) ELSE None

NoMA == [y_close |-> None, ma10 |-> None, ma20 |-> None,
         prev_close |-> None, prev_ma20 |-> None]

fetch_ma(s) ==
    LET n == Len(s) IN
    IF n = 0 THEN NoMA
    ELSE [ y_close    |-> to_float(s[n]),
           ma10       |-> to_float_mean(Rolling(s, P10, n)),
           ma20       |-> to_float_mean(Rolling(s, P20, n)),
           prev_close |-> IF n >= 2 THEN to_float(s[n - 1]) ELSE None,
           prev_ma20  |-> IF n >= 2 THEN to_float_mean(Rolling(s, P20, n - 1))
                          ELSE None ]

(***************************************************************************)
(* fetch_ma applied to one daily series (specification SpecMA)             *)
(***************************************************************************)
Rep(v, n) == [i \in 1 .. n |-> Num(v)]

\* n rows: the value a, then b for the last k rows, row nanAt (if any) NaN
Steps(n, a, b, k, nanAt) ==
    [i \in 1 .. n |-> IF i = nanAt THEN NaN
                      ELSE IF i <= n - k THEN Num(a) ELSE Num(b)]

CloseLevels == { <<200, 200>>, <<200, 190>>, <<200, 210>>, <<190, 210>> }

SeriesFamily ==
    { Steps(n, ab[1], ab[2], k, nanAt) :
        n \in 0 .. MaxRows, ab \in CloseLevels, k \in 0 .. 2, nanAt \in 0 .. MaxRows }

MAInit ==
    /\ maSeries \in SeriesFamily
    /\ maOut = NoMA
    /\ maPc = "call"

ComputeMA ==
    /\ maPc = "call"
    /\ maOut' = fetch_ma(maSeries)
    /\ maPc' = "returned"
    /\ UNCHANGED << maSeries, mainVars, dedupVars >>

\* the closes that are present (not NaN)
ValidCloses(s) == SelectSeq(s, LAMBDA x : x.t = "num")

(***************************************************************************)
(* main(): helpers                                                         *)
(***************************************************************************)
EventNames == { "touch20", "crossup20", "crossdown20", "touch10" }

Abs(x) == IF x < 0 THEN -x ELSE x

\* abs(price - ma) / ma <= TOUCH_TOL, for ma > 0
Touch(price, ma) == Abs(price - ma) * TolDen <= TolNum * ma

\* mutant: the chain without its "is not None" guards, an absent value
\* read as 0
OrZero(x) == IF x = None THEN 0 ELSE Val(x)

classify_unguarded(price, m) ==
    IF m.ma20 # None /\ price # None /\ Touch(Val(price), Val(m.ma20))
    THEN "touch20"
    ELSE IF OrZero(m.prev_close) < OrZero(m.prev_ma20) /\ Val(price) > Val(m.ma20)
    THEN "crossup20"
    ELSE IF OrZero(m.prev_close) > OrZero(m.prev_ma20) /\ Val(price) < Val(m.ma20)
    THEN "crossdown20"
    ELSE IF m.ma10 # None /\ price # None /\ Touch(Val(price), Val(m.ma10))
    THEN "touch10"
    ELSE "none"

\* the if / elif chain of main(): at most one event, the first that matches
classify(price, m) ==
    IF m.ma20 # None /\ price # None /\ Touch(Val(price), Val(m.ma20))
    THEN "touch20"
    ELSE IF m.prev_close # None /\ m.prev_ma20 # None
            /\ Val(m.prev_close) < Val(m.prev_ma20) /\ Val(price) > Val(m.ma20)
    THEN "crossup20"
    ELSE IF m.prev_close # None /\ m.prev_ma20 # None
            /\ Val(m.prev_close) > Val(m.prev_ma20) /\ Val(price) < Val(m.ma20)
    THEN "crossdown20"
    ELSE IF m.ma10 # None /\ price # None /\ Touch(Val(price), Val(m.ma10))
    THEN "touch10"
    ELSE "none"

\* chg_pct = (price - yclose) / yclose * 100, kept as the exact fraction
chg_pct(price, yclose) ==
    IF yclose # None /\ price # None
    THEN Some([num |-> (Val(price) - Val(yclose)) * 100, den |-> Val(yclose)])
    ELSE None

\* fallback_price_from_yf_1m: an exception is caught and gives None
fallback_price_from_yf_1m(resp) ==
    IF resp.t = "rows" /\ Len(resp.rows) > 0
    THEN to_float(resp.rows[Len(resp.rows)])
    ELSE None

Header == [kind |-> "header"]

NoPriceLine(code) == [kind |-> "noprice", code |-> code]

NoMALine(code, l) ==
    [kind |-> "noma", code |-> code, price |-> l.price, tag |-> l.tag,
     chg |-> l.chg]

StatusLine(code, l) ==
    [kind |-> "status", code |-> code, price |-> l.price, chg |-> l.chg,
     ma10 |-> l.ma.ma10, ma20 |-> l.ma.ma20,
     pos |-> IF l.ma.ma20 # None /\ l.price # None
             THEN (IF Val(l.price) > Val(l.ma.ma20) THEN "above"
                   ELSE IF Val(l.price) < Val(l.ma.ma20) THEN "below"
                   ELSE "equal")
             ELSE "unknown"]

AlertLine(code, l) ==
    [code |-> code, event |-> l.event, price |-> l.price, tag |-> l.tag,
     ma |-> IF l.event = "touch10" THEN l.ma.ma10 ELSE l.ma.ma20]

\* mutant: the "no MA" branch continues without appending its line
AfterNoMA_dropped(ls, code, l) == ls

\* the three places of the loop body that end an iteration with a line
AfterNoPrice(ls, code) == Append(ls, NoPriceLine(code))
AfterNoMA(ls, code, l) == Append(ls, NoMALine(code, l))
AfterEvent(ls, code, l) == Append(ls, StatusLine(code, l))

LocInit == [price |-> None, yclose |-> None, tag |-> "TWSE", chg |-> None,
            ma |-> NoMA, event |-> "none"]

(***************************************************************************)
(* line_send                                                               *)
(***************************************************************************)
\* what one call meets, step by step; a step the call never reaches is "na":
\* os.getenv("LINE_NOTIFY_TOKEN") (read on every call), the first and the
\* second DNS lookup, and how the POST (after its retries) ends
NetEnv ==
    { [token |-> "unset", dns1 |-> "na", dns2 |-> "na", post |-> "na"],
      [token |-> "set", dns1 |-> "fail", dns2 |-> "fail", post |-> "na"] }
    \cup { [token |-> "set", dns1 |-> "ok", dns2 |-> "na", post |-> p] :
             p \in {"200", "other", "exc"} }
    \cup { [token |-> "set", dns1 |-> "fail", dns2 |-> "ok", post |-> p] :
             p \in {"200", "other", "exc"} }

\* mutant: the response's status code is not looked at
line_send_any_status(env) ==
    IF env.token = "unset" THEN [ret |-> FALSE, received |-> FALSE]
    ELSE IF env.dns1 = "fail" /\ env.dns2 = "fail"
    THEN [ret |-> FALSE, received |-> FALSE]
    ELSE IF env.post = "exc" THEN [ret |-> FALSE, received |-> FALSE]
    ELSE [ret |-> TRUE, received |-> env.post = "200"]

\* ret: the function's return value; received: the endpoint accepted the
\* message (HTTP 200)
line_send(env) ==
    IF env.token = "unset" THEN [ret |-> FALSE, received |-> FALSE]
    ELSE IF env.dns1 = "fail" /\ env.dns2 = "fail"
    THEN [ret |-> FALSE, received |-> FALSE]
    ELSE IF env.post = "200" THEN [ret |-> TRUE, received |-> TRUE]
    ELSE [ret |-> FALSE, received |-> FALSE]

\* sent = line_send(msg); if not sent: print(msg)
Deliver(o, kind, body, env) ==
    LET r  == line_send(env)
        o1 == IF r.received
              THEN Append(o, [via |-> "line", kind |-> kind, body |-> body])
              ELSE o
    IN  IF ~r.ret
        THEN Append(o1, [via |-> "console", kind |-> kind, body |-> body])
        ELSE o1

(***************************************************************************)
(* dedup_check_and_set, run without interleaving (inside one run)          *)
(***************************************************************************)
\* how the GET and the SET request end ("na": never sent); the EXPIRE
\* request changes neither the return value nor which keys exist
RedisEnv ==
    { [get |-> "exc", set |-> "na"] }
    \cup [get : {"notok", "ok"}, set : {"exc", "rejected", "ok"}]

\* ret: the return value; store: the keys afterwards; wrote: this call set
\* the key
dedup_check_and_set(on, store, key, env) ==
    IF ~on THEN [ret |-> TRUE, store |-> store, wrote |-> FALSE]
    ELSE IF env.get = "exc" THEN [ret |-> TRUE, store |-> store, wrote |-> FALSE]
    ELSE IF env.get = "ok" /\ key \in store
    THEN [ret |-> FALSE, store |-> store, wrote |-> FALSE]
    ELSE IF env.set = "ok"
    THEN [ret |-> TRUE, store |-> store \cup {key}, wrote |-> TRUE]
    ELSE [ret |-> TRUE, store |-> store, wrote |-> FALSE]

(***************************************************************************)
(* What the feeds may answer                                               *)
(***************************************************************************)
\* one entry of msgArray, or the ticker missing from the response
QuoteMissing == [present |-> FALSE, z |-> Absent, y |-> Absent]

QuoteSet ==
    { QuoteMissing,
      [present |-> TRUE, z |-> Str("-"),  y |-> Num(200)],
      [present |-> TRUE, z |-> Num(200),  y |-> Num(200)],
      [present |-> TRUE, z |-> Num(210),  y |-> Str("-")] }

\* yf.download(period="1d", interval="1m"): raises, is empty, or has rows
FallbackResponses ==
    { [t |-> "exc", rows |-> << >>],
      [t |-> "rows", rows |-> << >>],
      [t |-> "rows", rows |-> Rep(190, 1)] }

\* yf.download(period="6mo", interval="1d") when it does not raise: the Close
\* column (an empty frame and a frame without Close both give no averages)
HistorySet ==
    { << >>,                                   \* empty frame
      Rep(200, 1),                             \* a single close
      Rep(200, P20),                           \* MA20, but no prior MA20
      Rep(200, P20 + 1),                       \* flat
      Rep(200, P20 - 1) \o Rep(190, 1) \o Rep(200, 1),   \* prev_close below
      Rep(200, P20 - 1) \o Rep(210, 1) \o Rep(200, 1),   \* prev_close above
      Rep(190, P10 + 1) \o Rep(210, P10),      \* MA10 at 210, MA20 at 200
      Steps(P20 + 2, 200, 200, 0, P20) }       \* 21 closes and one NaN row

\* how many valid closes the daily history held
HistClass(rows) ==
    LET n == Len(ValidCloses(rows)) IN
    IF n < 2 THEN "lt2" ELSE IF n < P20 THEN "lt20"
    ELSE IF n < P20 + 1 THEN "lt21" ELSE "ge21"

FbClass(resp) ==
    IF resp.t = "exc" THEN "exc"
    ELSE IF fallback_price_from_yf_1m(resp) = None THEN "nodata" ELSE "ok"

FeedInit == [c \in CODES |-> [fb |-> "notcalled", hist |-> "notcalled"]]

AllKeys == CODES \X EventNames

\* what earlier runs of the day may have left in the store
PriorStores == { {}, AllKeys }

(***************************************************************************)
(* main(): one run                                                         *)
(***************************************************************************)
MainInit ==
    /\ pc = "start"
    /\ quotes = << >>
    /\ idx = 0
    /\ lines = << >>
    /\ alerts = << >>
    /\ loc = LocInit
    /\ redisOn \in BOOLEAN
    /\ redis \in (IF redisOn THEN PriorStores ELSE { {} })
    /\ out = << >>
    /\ recorded = {}
    /\ feed = FeedInit

\* fetch_twse_quotes raises (request error, raise_for_status, bad JSON):
\* nothing in main() catches it
FetchQuotesRaises ==
    /\ pc = "start"
    /\ pc' = "raised_fetch_twse_quotes"
    /\ UNCHANGED << quotes, idx, lines, alerts, loc, redis, redisOn,
                    out, recorded, feed >>
    /\ UNCHANGED << maVars, dedupVars >>

FetchQuotes ==
    /\ pc = "start"
    /\ quotes' \in [CODES -> QuoteSet]
    /\ lines' = << Header >>
    /\ alerts' = << >>
    /\ idx' = 1
    /\ pc' = "price"
    /\ UNCHANGED << loc, redis, redisOn, out, recorded, feed >>
    /\ UNCHANGED << maVars, dedupVars >>

\* lines 187-208: price from TWSE, else from the 1m fallback, else a line
ResolvePrice ==
    /\ pc = "price"
    /\ idx <= NumCodes
    /\ LET q      == quotes[idx]
           price  == to_float(q.z)
           yclose == to_float(q.y)
       IN  IF price # None
           THEN /\ loc' = [LocInit EXCEPT !.price = price, !.yclose = yclose,
                              !.tag = "TWSE", !.chg = chg_pct(price, yclose)]
                /\ pc' = "ma"
                /\ UNCHANGED << idx, lines, feed >>
           ELSE \E resp \in FallbackResponses :
                  LET yf_price == fallback_price_from_yf_1m(resp) IN
                  /\ feed' = [feed EXCEPT ![idx].fb = FbClass(resp)]
                  /\ IF yf_price # None
                     THEN /\ loc' = [LocInit EXCEPT !.price = yf_price,
                                        !.yclose = yclose, !.tag = "Yahoo",
                                        !.chg = chg_pct(yf_price, yclose)]
                          /\ pc' = "ma"
                          /\ UNCHANGED << idx, lines >>
                     ELSE /\ lines' = AfterNoPrice(lines, idx)
                          /\ idx' = idx + 1
                          /\ loc' = LocInit
                          /\ pc' = "price"
    /\ UNCHANGED << quotes, alerts, redis, redisOn, out, recorded >>
    /\ UNCHANGED << maVars, dedupVars >>

\* fetch_ma raises: nothing in main() catches it
FetchMARaises ==
    /\ pc = "ma"
    /\ feed' = [feed EXCEPT ![idx].hist = "exc"]
    /\ pc' = "raised_fetch_ma"
    /\ UNCHANGED << quotes, idx, lines, alerts, loc, redis, redisOn,
                    out, recorded >>
    /\ UNCHANGED << maVars, dedupVars >>

\* lines 211-228: the averages, the "no MA" line, the event chain
FetchMA ==
    /\ pc = "ma"
    /\ \E rows \in HistorySet :
         LET m == fetch_ma(rows) IN
         /\ feed' = [feed EXCEPT ![idx].hist = HistClass(rows)]
         /\ IF m.ma10 = None \/ m.ma20 = None
            THEN /\ lines' = AfterNoMA(lines, idx, loc)
                 /\ idx' = idx + 1
                 /\ loc' = LocInit
                 /\ pc' = "price"
            ELSE /\ loc' = [loc EXCEPT !.ma = m, !.event = classify(loc.price, m)]
                 /\ pc' = "event"
                 /\ UNCHANGED << idx, lines >>
    /\ UNCHANGED << quotes, alerts, redis, redisOn, out, recorded >>
    /\ UNCHANGED << maVars, dedupVars >>

\* lines 231-249: dedup, the alert, the status line
AlertAndLine ==
    /\ pc = "event"
    /\ IF loc.event # "none"
       THEN \E env \in RedisEnv :
              LET key == << idx, loc.event >>
                  d   == dedup_check_and_set(redisOn, redis, key, env)
              IN  /\ redis' = d.store
                  /\ recorded' = IF d.wrote THEN recorded \cup {key} ELSE recorded
                  /\ alerts' = IF d.ret THEN Append(alerts, AlertLine(idx, loc))
                               ELSE alerts
                  /\ out' = IF d.ret THEN out
                            ELSE Append(out, [via |-> "console", kind |-> "skip",
                                              body |-> key])
       ELSE UNCHANGED << redis, recorded, alerts, out >>
    /\ lines' = AfterEvent(lines, idx, loc)
    /\ idx' = idx + 1
    /\ loc' = LocInit
    /\ pc' = "price"
    /\ UNCHANGED << quotes, redisOn, feed >>
    /\ UNCHANGED << maVars, dedupVars >>

\* lines 253-256
SendSummary ==
    /\ pc = "price"
    /\ idx > NumCodes
    /\ \E env \in NetEnv : out' = Deliver(out, "summary", lines, env)
    /\ pc' = "alerts"
    /\ UNCHANGED << quotes, idx, lines, alerts, loc, redis, redisOn,
                    recorded, feed >>
    /\ UNCHANGED << maVars, dedupVars >>

\* lines 258-262
SendAlerts ==
    /\ pc = "alerts"
    /\ IF alerts # << >>
       THEN \E env \in NetEnv : out' = Deliver(out, "alerts", alerts, env)
       ELSE out' = out
    /\ pc' = "done"
    /\ UNCHANGED << quotes, idx, lines, alerts, loc, redis, redisOn,
                    recorded, feed >>
    /\ UNCHANGED << maVars, dedupVars >>

Next ==
    \/ FetchQuotesRaises
    \/ FetchQuotes
    \/ ResolvePrice
    \/ FetchMARaises
    \/ FetchMA
    \/ AlertAndLine
    \/ SendSummary
    \/ SendAlerts

MAIdle ==
    /\ maSeries = << >>
    /\ maOut = NoMA
    /\ maPc = "idle"

DedupIdle ==
    /\ dpc = << >>
    /\ dkey = << >>
    /\ dcalls = << >>
    /\ dret = {}
    /\ dstore = {}
    /\ dclean = TRUE

Init == MainInit /\ MAIdle /\ DedupIdle

Spec == Init /\ [][Next]_vars

(***************************************************************************)
(* SpecMA: fetch_ma on one series                                          *)
(***************************************************************************)
MainIdle ==
    /\ pc = "idle"
    /\ quotes = << >>
    /\ idx = 0
    /\ lines = << >>
    /\ alerts = << >>
    /\ loc = LocInit
    /\ redis = {}
    /\ out = << >>
    /\ recorded = {}
    /\ feed = FeedInit

InitMA == MAInit /\ MainIdle /\ redisOn = FALSE /\ DedupIdle

NextMA == ComputeMA

SpecMA == InitMA /\ [][NextMA]_vars

(***************************************************************************)
(* SpecDedup: overlapping cron runs calling dedup_check_and_set, one HTTP  *)
(* request at a time.  Keys do not expire here: all calls fall within the  *)
(* TTL.                                                                    *)
(***************************************************************************)
RUNS == 1 .. NumRuns

DKeys == { << 1, "touch20" >>, << 1, "crossup20" >> }

DedupInit ==
    /\ dpc = [r \in RUNS |-> "idle"]
    /\ dkey = [r \in RUNS |-> << 1, "touch20" >>]
    /\ dcalls = [r \in RUNS |-> 0]
    /\ dret = {}
    /\ dstore = {}
    /\ dclean = TRUE

\* the call of run r returns v
DReturn(r, v) ==
    /\ dret' = dret \cup { [run |-> r, n |-> dcalls[r], key |-> dkey[r], ret |-> v] }
    /\ dpc' = [dpc EXCEPT ![r] = "idle"]

\* entry: without Redis configured every call returns True
DCall(r) ==
    /\ dpc[r] = "idle"
    /\ dcalls[r] < MaxCalls
    /\ \E k \in DKeys :
         /\ dkey' = [dkey EXCEPT ![r] = k]
         /\ dcalls' = [dcalls EXCEPT ![r] = @ + 1]
         /\ IF redisOn
            THEN /\ dpc' = [dpc EXCEPT ![r] = "get"]
                 /\ dret' = dret
            ELSE /\ dret' = dret \cup { [run |-> r, n |-> dcalls[r] + 1,
                                         key |-> k, ret |-> TRUE] }
                 /\ dpc' = dpc
    /\ UNCHANGED << dstore, dclean, mainVars, maVars >>

\* POST /get/key
DGet(r) ==
    /\ dpc[r] = "get"
    /\ \E resp \in {"exc", "notok", "ok"} :
         IF resp = "exc"
         THEN DReturn(r, TRUE) /\ dclean' = FALSE
         ELSE IF resp = "ok" /\ dkey[r] \in dstore
         THEN DReturn(r, FALSE) /\ dclean' = dclean
         ELSE /\ dpc' = [dpc EXCEPT ![r] = "set"]
              /\ dret' = dret
              /\ dclean' = (dclean /\ resp = "ok")
    /\ UNCHANGED << dkey, dcalls, dstore, mainVars, maVars >>

\* POST /set/key/now
DSet(r) ==
    /\ dpc[r] = "set"
    /\ \E resp \in {"exc", "rejected", "ok"} :
         IF resp = "exc"
         THEN DReturn(r, TRUE) /\ dclean' = FALSE /\ dstore' = dstore
         ELSE /\ dpc' = [dpc EXCEPT ![r] = "expire"]
              /\ dret' = dret
              /\ dstore' = IF resp = "ok" THEN dstore \cup {dkey[r]} ELSE dstore
              /\ dclean' = (dclean /\ resp = "ok")
    /\ UNCHANGED << dkey, dcalls, mainVars, maVars >>

\* POST /expire/key/ttl
DExpire(r) ==
    /\ dpc[r] = "expire"
    /\ \E resp \in {"exc", "ok"} :
         /\ DReturn(r, TRUE)
         /\ dclean' = (dclean /\ resp = "ok")
    /\ UNCHANGED << dkey, dcalls, dstore, mainVars, maVars >>

InitDedup == DedupInit /\ MainIdle /\ redisOn \in BOOLEAN /\ MAIdle

NextDedup ==
    \E r \in RUNS : DCall(r) \/ DGet(r) \/ DSet(r) \/ DExpire(r)

SpecDedup == InitDedup /\ [][NextDedup]_vars

(***************************************************************************)
(* Properties                                                              *)
(***************************************************************************)
Processed == 1 .. (IF idx = 0 THEN 0 ELSE idx - 1)     \* tickers with a line

Entries(kind, via) ==
    { i \in 1 .. Len(out) : out[i].kind = kind /\ out[i].via = via }

AlertsOf(c) == { i \in 1 .. Len(alerts) : alerts[i].code = c }

PriceAvailable(c) == to_float(quotes[c].z) # None \/ feed[c].fb = "ok"

\* C1: a ticker whose history (fetch_ma) or fallback price fails, by returning
\* no data or by raising, does not abort the run: it gets an "unavailable"
\* line and the loop goes on to the other tickers and to the send step.
C1_FailureIsolated ==
    \A c \in CODES :
        (feed[c].hist \in {"exc", "lt2", "lt20"} \/ feed[c].fb \in {"exc", "nodata"})
        => /\ pc # "raised_fetch_ma"
           /\ c \in Processed
           /\ lines[c + 1].kind \in {"noprice", "noma"}

InOrder(ls) ==
    /\ Len(ls) >= 1
    /\ ls[1] = Header
    /\ \A i \in 2 .. Len(ls) : ls[i].kind # "header" /\ ls[i].code = i - 1

\* C2: once the run has reached the send step, the summary that went out is
\* the header followed by exactly one line per watchlist ticker, in
\* watchlist order, whatever happened to each ticker; and while the loop
\* runs, `lines` holds the header and one line per ticker already handled.
C2_NoTickerDropped ==
    /\ pc \in {"price", "ma", "event"} => Len(lines) = idx /\ InOrder(lines)
    /\ pc \in {"alerts", "done"} =>
         \E i \in 1 .. Len(out) :
            /\ out[i].kind = "summary"
            /\ Len(out[i].body) = NumCodes + 1
            /\ InOrder(out[i].body)

\* a finished run whose summary mixes a ticker without price, and a ticker
\* with full data whose alert was suppressed by dedup
C2_Witness ==
    /\ pc = "done"
    /\ \E c \in CODES : lines[c + 1].kind = "noprice"
    /\ \E c \in CODES :
         /\ lines[c + 1].kind = "status"
         /\ \E i \in 1 .. Len(out) : out[i].kind = "skip" /\ out[i].body[1] = c

\* C3: with at least 21 valid closes and a price, prev_close < prior MA20 and
\* price > current MA20 give the event crossup20 (never touch20 or
\* crossdown20), also when the price is within the touch tolerance of MA20.
C3_CrossUpBeatsTouch ==
    ( /\ pc = "event"
      /\ feed[idx].hist = "ge21"
      /\ loc.ma.prev_close # None /\ loc.ma.prev_ma20 # None
      /\ Val(loc.ma.prev_close) < Val(loc.ma.prev_ma20)
      /\ Val(loc.price) > Val(loc.ma.ma20) )
    => loc.event = "crossup20"

\* C4: whenever the price is within the touch tolerance of the current MA10,
\* the touch10 event is the ticker's reported event, whether or not an MA20
\* rule also matches.
C4_TouchMA10Independent ==
    ( /\ pc = "event"
      /\ loc.price # None /\ loc.ma.ma10 # None
      /\ Touch(Val(loc.price), Val(loc.ma.ma10)) )
    => loc.event = "touch10"

IsCross(e) == e \in {"crossup20", "crossdown20"}

\* C5: an event, an alert or a recorded dedup key exists for a ticker only if
\* everything its rule reads is present: a price, at least 20 valid closes
\* for a touch, at least 21 for a cross; a ticker without price or with too
\* few closes ends with an "unavailable" line, no alert, and no exception.
C5_EventOnlyWithInputs ==
    /\ (pc = "event" /\ loc.event # "none") =>
          /\ loc.price # None
          /\ (loc.event = "touch10" => loc.ma.ma10 # None)
          /\ (loc.event # "touch10" => loc.ma.ma20 # None)
          /\ (IsCross(loc.event) =>
                 loc.ma.prev_close # None /\ loc.ma.prev_ma20 # None)
          /\ PriceAvailable(idx)
          /\ feed[idx].hist \in {"lt21", "ge21"}
          /\ (IsCross(loc.event) => feed[idx].hist = "ge21")
    /\ \A i \in 1 .. Len(alerts) :
          /\ alerts[i].price # None /\ alerts[i].ma # None
          /\ PriceAvailable(alerts[i].code)
          /\ feed[alerts[i].code].hist \in {"lt21", "ge21"}
          /\ (IsCross(alerts[i].event) => feed[alerts[i].code].hist = "ge21")
    /\ \A k \in recorded : feed[k[1]].hist \in {"lt21", "ge21"}
    /\ \A c \in CODES :
          (feed[c].hist \in {"lt2", "lt20"} \/ feed[c].fb \in {"exc", "nodata"})
          => /\ c \in Processed
             /\ lines[c + 1].kind \in {"noprice", "noma"}
             /\ AlertsOf(c) = {}

\* a finished run with a cross alert for one ticker and, for another, a
\* history of fewer than 2 valid closes
C5_Witness ==
    /\ pc = "done"
    /\ \E i \in 1 .. Len(alerts) : IsCross(alerts[i].event)
    /\ \E c \in CODES : feed[c].hist = "lt2" /\ lines[c + 1].kind = "noma"

\* C6: each message the run builds is either accepted by the transport or
\* printed to the console, never both and never neither; a failed summary
\* send still lets the alert message be attempted; nothing is sent or
\* printed as a message before the send step.
C6_SentXorPrinted ==
    /\ pc \in {"alerts", "done"} =>
          /\ Cardinality(Entries("summary", "line") \cup Entries("summary", "console")) = 1
          /\ \A i \in Entries("summary", "line") \cup Entries("summary", "console") :
                out[i].body = lines
    /\ pc = "done" =>
          /\ Cardinality(Entries("alerts", "line") \cup Entries("alerts", "console"))
                = (IF alerts # << >> THEN 1 ELSE 0)
          /\ \A i \in Entries("alerts", "line") \cup Entries("alerts", "console") :
                out[i].body = alerts
    /\ pc \notin {"alerts", "done"} =>
          Entries("summary", "line") \cup Entries("summary", "console")
             \cup Entries("alerts", "line") \cup Entries("alerts", "console") = {}
    /\ pc = "alerts" =>
          Entries("alerts", "line") \cup Entries("alerts", "console") = {}

\* a finished run whose summary send failed (printed) and whose alert message
\* was then accepted by the transport
C6_Witness ==
    /\ pc = "done"
    /\ Entries("summary", "console") # {}
    /\ Entries("alerts", "line") # {}

PrimaryUnavailable(c) ==
    to_float(quotes[c].z) = None \/ to_float(quotes[c].y) = None

SecondaryReachable(c) ==
    /\ feed[c].fb \in {"ok", "notcalled"}
    /\ feed[c].hist \in {"lt20", "lt21", "ge21"}

\* C7: when the primary quote is unusable for a ticker (request failed,
\* ticker missing, price or previous close missing or "-") and the secondary
\* feed answers, the run goes on and the ticker's line carries a change
\* percentage, not the placeholder.
C7_FallbackChangePct ==
    /\ pc # "raised_fetch_twse_quotes"
    /\ \A c \in Processed :
          (PrimaryUnavailable(c) /\ SecondaryReachable(c))
          => lines[c + 1].kind \in {"noma", "status"} /\ lines[c + 1].chg # None

\* the reference of C8: drop the missing closes first, then plain means
RefCurrent(s, N) ==
    LET v == ValidCloses(s) IN
    IF Len(v) < N THEN None
    ELSE Some(SumRows(v, Len(v) - N + 1, Len(v)) * (Unit \div N))

RefPrior(s, N) ==
    LET v == ValidCloses(s) IN
    IF Len(v) < N + 1 THEN None
    ELSE Some(SumRows(v, Len(v) - N, Len(v) - 1) * (Unit \div N))

\* C8: the averages fetch_ma returns are those of the series with its missing
\* closes dropped: mean of the last N valid closes, prior MA20 the mean of
\* the 20 valid closes before the last one, absent exactly when too few.
C8_MAEqualsReference ==
    maPc = "returned" =>
        /\ maOut.ma10 = RefCurrent(maSeries, P10)
        /\ maOut.ma20 = RefCurrent(maSeries, P20)
        /\ maOut.prev_ma20 = RefPrior(maSeries, P20)

\* C9: with Redis configured and every request answered, at most one call
\* per key returns True, however the runs' requests interleave.
C9_AtMostOnce ==
    (redisOn /\ dclean) =>
        \A k \in DKeys : Cardinality({ x \in dret : x.key = k /\ x.ret }) <= 1

AlertOutput(k) ==
    \E i \in 1 .. Len(out) :
        /\ out[i].kind = "alerts"
        /\ \E j \in 1 .. Len(out[i].body) :
              << out[i].body[j].code, out[i].body[j].event >> = k

\* C10: when a run has ended, normally or not, every dedup key it recorded
\* belongs to an alert that was handed to the transport or printed.
C10_RecordedAlertIsOutput ==
    pc \in {"done", "raised_fetch_ma", "raised_fetch_twse_quotes"} =>
        \A k \in recorded : AlertOutput(k)
====
